---- MODULE Spec2Model ----
(***************************************************************************)
(* A model of system_monitor.py: the SystemMonitor object, its two daemon  *)
(* collector threads (_loop_containers, _loop_space) and the main thread's *)
(* render loop (main / display_metrics).  Every statement that reads or    *)
(* writes state shared between threads is a step of its own, so that the   *)
(* interleavings the interpreter allows are the interleavings of the model.*)
(***************************************************************************)
EXTENDS Integers, Sequences, FiniteSets, TLC

(***************************************************************************)
(* Bounds of the model.                                                    *)
(***************************************************************************)
\* deque(maxlen=history_length): the capacity every history is built with.
history_length == 2
\* Pushes followed per history; a loop starts no new round beyond it.
MaxPushes == 3
\* Container polls and render ticks followed where every listing and every
\* per-container outcome is.
MaxCycles == 2
MaxTicks == 2
\* Storage polls followed.
MaxPolls == 2
\* The storage collector's sleep, in increments (range(60) in the source).
SleepTicks == 2
\* Samples handed to create_sparkline, the widths asked of it, and the
\* addresses handed to the port joiner.
MaxSamples == 3
MaxWidth == 3
MaxPorts == 2

(***************************************************************************)
(* The environment: what the external collaborators may answer.            *)
(***************************************************************************)
\* The containers the runtime may report.
Names == {"web", "db"}
\* What a collaborator may answer is read from env, which a specification
\* fixes at the start and nothing changes; the sets below are the widest
\* answers followed.
\* client.containers.list(): the listings the runtime may return.
Listings == {<<>>, <<"web">>, <<"db">>, <<"web", "db">>}
\* c.ports, flattened to the HostPort of every mapping that has one.
HostPorts == [web |-> <<"8080">>, db |-> <<"5432">>]
\* What happens while one container is processed (lines 68-128): all of it
\* succeeds, a step before the port loop raises (c.attrs), or c.stats raises.
Outcomes == {"ok", "attrs_fail", "stats_fail"}
\* psutil.cpu_percent's answers.
CpuPercents == {10, 90}
\* psutil.net_connections: the sorted LISTEN addresses.
PortListings == {<<"0.0.0.0:8080">>}
\* client.df(): Images' Size; Volumes' UsageData (<<>> for None, <<size>>
\* otherwise); Containers' SizeRw (<<>> when the key is missing).
ScenarioInfo ==
  [Images |-> <<1073741824>>, Volumes |-> << <<536870912>> >>, Containers |-> << <<0>> >>]
DfInfos ==
  { ScenarioInfo,
    [Images |-> <<>>, Volumes |-> << <<>> >>, Containers |-> << <<>> >>],
    [Images |-> <<268435456>>, Volumes |-> <<>>, Containers |-> <<>>] }

VARIABLES
  env,                       \* the answers the collaborators may give, and the rounds followed
  docker_state,              \* self.docker_state
  cpu_history, memory_history, disk_usage_history, docker_containers_history,
  stop_threads,              \* self.stop_threads
  cpc, c_local,              \* _loop_containers: position and locals
  spc, s_i,                  \* _loop_space: position and sleep counter
  mpc, m_local,              \* main/display_metrics: position and locals
  frame,                     \* the container section the last render printed
  cycle,                     \* history: container polls that have returned
  ver,                       \* history: the cycle that wrote each container field
  pushed,                    \* history: every sample appended to each history
  s_log,                     \* history: the storage polls' outcomes, <<"fail">> or <<"ok", info>>
  call                       \* a call of an encoder: the function, its arguments, its result

vars == <<env, docker_state, cpu_history, memory_history, disk_usage_history,
          docker_containers_history, stop_threads, cpc, c_local, spc, s_i,
          mpc, m_local, frame, cycle, ver, pushed, s_log, call>>

histories == <<cpu_history, memory_history, disk_usage_history, docker_containers_history>>

(***************************************************************************)
(* Helpers.                                                                *)
(***************************************************************************)
EmptyMap == [p \in {} |-> ""]

\* A faulty append: a full deque refuses the new sample and keeps the oldest.
PushDropNewest(buf, x) ==
  IF Len(buf) < history_length THEN Append(buf, x) ELSE buf

\* deque.append on a deque(maxlen=history_length): when full, the oldest
\* (leftmost) sample is discarded.
Push(buf, x) ==
  IF Len(buf) < history_length THEN Append(buf, x) ELSE Append(Tail(buf), x)

\* pushed, with sample x recorded for history h.
Logged(h, x) == [pushed EXCEPT ![h] = Append(@, x)]

\* port_map[host_port] = c.name, for every host port of c in order (76-83).
RECURSIVE RecordPorts(_, _, _, _)
RecordPorts(port_map, c, ports, i) ==
  IF i > Len(ports) THEN port_map
  ELSE RecordPorts([p \in DOMAIN port_map \cup {ports[i]} |->
                       IF p = ports[i] THEN c ELSE port_map[p]],
                   c, ports, i + 1)

\* ",".join(ports_list[:3]), "..." appended when there are more (85-86).
RECURSIVE JoinComma(_, _)
JoinComma(s, i) ==
  IF i > Len(s) THEN ""
  ELSE IF i = Len(s) THEN s[i] ELSE s[i] \o "," \o JoinComma(s, i + 1)

PortsStr(ports_list) ==
  IF Len(ports_list) > 3 THEN JoinComma(SubSeq(ports_list, 1, 3), 1) \o "..."
  ELSE JoinComma(ports_list, 1)

\* A faulty loop: the first container whose processing raises ends the loop
\* (a break where the source has continue).
RECURSIVE ProcessContainersStopAtFailure(_, _, _, _, _)
ProcessContainersStopAtFailure(containers, outcome, i, data_list, port_map) ==
  IF i > Len(containers) THEN [data_list |-> data_list, port_map |-> port_map]
  ELSE LET c == containers[i]
           recorded == RecordPorts(port_map, c, HostPorts[c], 1)
       IN CASE outcome[i] = "attrs_fail" ->
                 [data_list |-> data_list, port_map |-> port_map]
            [] outcome[i] = "stats_fail" ->
                 [data_list |-> data_list, port_map |-> recorded]
            [] OTHER ->
                 ProcessContainersStopAtFailure(containers, outcome, i + 1,
                    Append(data_list, [name |-> c, ports |-> PortsStr(HostPorts[c])]),
                    recorded)

\* The for loop of lines 66-128 over the listing: a container whose
\* processing raises is skipped by the except/continue of 127-128; what it
\* wrote to port_map before raising stays.
RECURSIVE ProcessContainers(_, _, _, _, _)
ProcessContainers(containers, outcome, i, data_list, port_map) ==
  IF i > Len(containers) THEN [data_list |-> data_list, port_map |-> port_map]
  ELSE LET c == containers[i]
           recorded == RecordPorts(port_map, c, HostPorts[c], 1)
       IN CASE outcome[i] = "attrs_fail" ->
                 ProcessContainers(containers, outcome, i + 1, data_list, port_map)
            [] outcome[i] = "stats_fail" ->
                 ProcessContainers(containers, outcome, i + 1, data_list, recorded)
            [] OTHER ->
                 ProcessContainers(containers, outcome, i + 1,
                    Append(data_list, [name |-> c, ports |-> PortsStr(HostPorts[c])]),
                    recorded)

\* _loop_containers' locals (60-64) before a poll; outcome and polled are
\* history: what happened to each container of the listing, and how the
\* last poll ended ("none" once the loop has been tested again).
NoLocals == [containers |-> <<>>, outcome |-> <<>>, data_list |-> <<>>,
             count |-> 0, port_map |-> EmptyMap, polled |-> "none"]

\* display_metrics' locals before anything is read.
NoReads == [docker_count |-> 0, docker_containers |-> <<>>,
            port_map |-> EmptyMap,
            raw_ports |-> <<>>, raised |-> "none",
            v_count |-> 0, v_containers |-> 0, v_port_map |-> 0]

\* The process is running: main has neither returned nor died.
Alive == mpc \notin {"crashed", "exited"}

(***************************************************************************)
(* SystemMonitor.__init__ (12-41): the state after construction, both      *)
(* threads started and main about to enter its loop.                       *)
(***************************************************************************)
ConstructedObject ==
  /\ docker_state = [containers |-> <<>>, container_count |-> 0,
                     space_str |-> "Initializing...", containers_ready |-> FALSE,
                     space_ready |-> FALSE, port_map |-> EmptyMap]
  /\ cpu_history = <<>>
  /\ memory_history = <<>>
  /\ disk_usage_history = <<>>
  /\ docker_containers_history = <<>>
  /\ stop_threads = FALSE
  /\ cpc = "from_env"
  /\ c_local = NoLocals
  /\ spc = "from_env"
  /\ s_i = 0
  /\ mpc = "cpu"
  /\ m_local = NoReads
  /\ frame = "none"
  /\ cycle = 0
  /\ ver = [containers |-> 0, container_count |-> 0, port_map |-> 0]
  /\ pushed = [h \in {"cpu", "memory", "disk", "docker"} |-> <<>>]
  /\ s_log = <<>>

\* No encoder is being applied.
NoCall == [fn |-> "none", args |-> <<>>, done |-> FALSE, out |-> <<>>]

Constructed == ConstructedObject /\ call = NoCall

(***************************************************************************)
(* _loop_containers (51-143).                                              *)
(***************************************************************************)
c_unch == <<env, spc, s_i, mpc, m_local, frame, stop_threads, s_log, call,
            cpu_history, memory_history, disk_usage_history>>

\* 53-54: docker.from_env() returns a client.
CFromEnvOk ==
  /\ Alive /\ cpc = "from_env"
  /\ cpc' = "top"
  /\ UNCHANGED <<docker_state, docker_containers_history, c_local, cycle, ver,
                 pushed, c_unch>>

\* 55-56: docker.from_env() raises; the thread returns.
CFromEnvFail ==
  /\ Alive /\ cpc = "from_env"
  /\ cpc' = "nodocker"
  /\ UNCHANGED <<docker_state, docker_containers_history, c_local, cycle, ver,
                 pushed, c_unch>>

\* 58: while not self.stop_threads.
CLoopTest ==
  /\ Alive /\ cpc = "top"
  /\ IF stop_threads THEN cpc' = "done"
     ELSE /\ cycle < env.cycles
          /\ cpc' = "poll"
  /\ c_local' = NoLocals
  /\ UNCHANGED <<docker_state, docker_containers_history, cycle, ver,
                 pushed, c_unch>>

\* 60-128: the listing returns and every container is processed; the
\* results are in the locals data_list, count, port_map.
CPollOk ==
  /\ Alive /\ cpc = "poll"
  /\ \E containers \in env.listings :
       \E outcome \in [1..Len(containers) -> env.outcomes] :
         LET r == ProcessContainers(containers, outcome, 1, <<>>, EmptyMap)
         IN c_local' = [containers |-> containers, outcome |-> outcome,
                        data_list |-> r.data_list, count |-> Len(containers),
                        port_map |-> r.port_map, polled |-> "none"]
  /\ cycle' = cycle + 1
  /\ cpc' = "w_containers"
  /\ UNCHANGED <<docker_state, docker_containers_history, ver, pushed, c_unch>>

\* A faulty except branch: a failed listing publishes an empty list.
CPollFailPublishesEmpty ==
  /\ Alive /\ cpc = "poll"
  /\ docker_state' = [docker_state EXCEPT !.containers = <<>>, !.container_count = 0]
  /\ c_local' = [NoLocals EXCEPT !.polled = "fail"]
  /\ cpc' = "top"
  /\ UNCHANGED <<docker_containers_history, cycle, ver, pushed, c_unch>>

\* 60, 139-143: client.containers.list() raises; the except of 139 passes,
\* the thread sleeps and tests the loop again.
CPollFail ==
  /\ Alive /\ cpc = "poll"
  /\ c_local' = [NoLocals EXCEPT !.polled = "fail"]
  /\ cpc' = "top"
  /\ UNCHANGED <<docker_state, docker_containers_history, cycle, ver,
                 pushed, c_unch>>

\* 60, 89: a call to the runtime never returns.
CPollHang ==
  /\ Alive /\ cpc = "poll"
  /\ cpc' = "hung"
  /\ UNCHANGED <<docker_state, docker_containers_history, c_local, cycle, ver,
                 pushed, c_unch>>

\* 131: self.docker_state['containers'] = data_list
CWriteContainers ==
  /\ Alive /\ cpc = "w_containers"
  /\ docker_state' = [docker_state EXCEPT !.containers = c_local.data_list]
  /\ ver' = [ver EXCEPT !.containers = cycle]
  /\ cpc' = "w_count"
  /\ UNCHANGED <<docker_containers_history, c_local, cycle, pushed, c_unch>>

\* 132: self.docker_state['container_count'] = count
CWriteCount ==
  /\ Alive /\ cpc = "w_count"
  /\ docker_state' = [docker_state EXCEPT !.container_count = c_local.count]
  /\ ver' = [ver EXCEPT !.container_count = cycle]
  /\ cpc' = "w_port_map"
  /\ UNCHANGED <<docker_containers_history, c_local, cycle, pushed, c_unch>>

\* 133: self.docker_state['port_map'] = port_map
CWritePortMap ==
  /\ Alive /\ cpc = "w_port_map"
  /\ docker_state' = [docker_state EXCEPT !.port_map = c_local.port_map]
  /\ ver' = [ver EXCEPT !.port_map = cycle]
  /\ cpc' = "w_ready"
  /\ UNCHANGED <<docker_containers_history, c_local, cycle, pushed, c_unch>>

\* 134: self.docker_state['containers_ready'] = True
CWriteReady ==
  /\ Alive /\ cpc = "w_ready"
  /\ docker_state' = [docker_state EXCEPT !.containers_ready = TRUE]
  /\ cpc' = "w_history"
  /\ UNCHANGED <<docker_containers_history, c_local, cycle, ver, pushed, c_unch>>

\* 137, 143: self.docker_containers_history.append(count); then the sleep,
\* after which the loop is tested again.
CAppendHistory ==
  /\ Alive /\ cpc = "w_history"
  /\ docker_containers_history' = Push(docker_containers_history, c_local.count)
  /\ pushed' = Logged("docker", c_local.count)
  /\ c_local' = [NoLocals EXCEPT !.polled = "ok"]
  /\ cpc' = "top"
  /\ UNCHANGED <<docker_state, cycle, ver, c_unch>>

ContainerNext ==
  \/ CFromEnvOk \/ CFromEnvFail \/ CLoopTest \/ CPollOk \/ CPollFail \/ CPollHang
  \/ CWriteContainers \/ CWriteCount \/ CWritePortMap \/ CWriteReady
  \/ CAppendHistory

(***************************************************************************)
(* _loop_space (145-170).                                                  *)
(***************************************************************************)
\* 1024**3 (160).
GiB == 1073741824

\* sum(f(e) for e in entries if e): entries are <<>> (filtered out) or <<size>>.
RECURSIVE SumPresent(_, _)
SumPresent(entries, i) ==
  IF i > Len(entries) THEN 0
  ELSE (IF entries[i] = <<>> THEN 0 ELSE entries[i][1]) + SumPresent(entries, i + 1)

RECURSIVE SumSeq(_, _)
SumSeq(sizes, i) ==
  IF i > Len(sizes) THEN 0 ELSE sizes[i] + SumSeq(sizes, i + 1)

\* 156-158: the three sums.  container.get('SizeRw') is falsy for 0 as for
\* a missing key; either way nothing is added.
TotalBytes(info) ==
  SumSeq(info.Images, 1) + SumPresent(info.Volumes, 1) + SumPresent(info.Containers, 1)

\* k * r as <<quotient, remainder>> by GiB, by repeated addition (no
\* product leaves the 32-bit range).
RECURSIVE TimesByGiB(_, _, _, _)
TimesByGiB(r, k, t, acc) ==
  IF k = 0 THEN <<t, acc>>
  ELSE IF acc + r >= GiB THEN TimesByGiB(r, k - 1, t + 1, acc + r - GiB)
       ELSE TimesByGiB(r, k - 1, t, acc + r)

\* total / 1024**3 in tenths, rounded as format(x, ".1f") rounds the
\* (exactly represented) quotient: to nearest, a tie to the even digit.
Tenths(total) ==
  LET q == total \div GiB
      tr == TimesByGiB(total % GiB, 10, 0, 0)
      t == 10 * q + tr[1]
      half == GiB \div 2
  IN IF tr[2] > half \/ (tr[2] = half /\ t % 2 = 1) THEN t + 1 ELSE t

\* 160-162: f"{total_gb:.1f}GB"
FormatGB(total) ==
  ToString(Tenths(total) \div 10) \o "." \o ToString(Tenths(total) % 10) \o "GB"

s_unch == <<env, cpc, c_local, mpc, m_local, frame, stop_threads, cycle, ver, pushed,
            histories, call>>

\* 147-148: docker.from_env() returns a client.
SFromEnvOk ==
  /\ Alive /\ spc = "from_env"
  /\ spc' = "top"
  /\ UNCHANGED <<docker_state, s_i, s_log, s_unch>>

\* A faulty except branch: the storage collector also empties the container
\* list.
SFromEnvFailClearsContainers ==
  /\ Alive /\ spc = "from_env"
  /\ docker_state' = [docker_state EXCEPT !.space_str = "Docker not found",
                                          !.containers = <<>>]
  /\ spc' = "nodocker"
  /\ UNCHANGED <<s_i, s_log, s_unch>>

\* 149-151: docker.from_env() raises; "Docker not found" is published and
\* the thread returns.
SFromEnvFail ==
  /\ Alive /\ spc = "from_env"
  /\ docker_state' = [docker_state EXCEPT !.space_str = "Docker not found"]
  /\ spc' = "nodocker"
  /\ UNCHANGED <<s_i, s_log, s_unch>>

\* 153: while not self.stop_threads.
SLoopTest ==
  /\ Alive /\ spc = "top"
  /\ IF stop_threads THEN spc' = "done"
     ELSE /\ Len(s_log) < MaxPolls
          /\ spc' = "df"
  /\ UNCHANGED <<docker_state, s_i, s_log, s_unch>>

\* 155-162: client.df() returns, the sizes are summed and space_str is
\* published.
SDfOk ==
  /\ Alive /\ spc = "df"
  /\ \E info \in env.dfinfos :
       /\ docker_state' = [docker_state EXCEPT !.space_str = FormatGB(TotalBytes(info))]
       /\ s_log' = Append(s_log, <<"ok", info>>)
  /\ spc' = "w_ready"
  /\ UNCHANGED <<s_i, s_unch>>

\* A faulty except branch: a failed poll also lowers the readiness flag.
SDfFailLowersReady ==
  /\ Alive /\ spc = "df"
  /\ docker_state' = [docker_state EXCEPT !.space_str = "Error", !.space_ready = FALSE]
  /\ s_log' = Append(s_log, <<"fail">>)
  /\ spc' = "sleep"
  /\ s_i' = 0
  /\ UNCHANGED s_unch

\* A faulty except branch: the last published size is kept.
SDfFailKeepsStale ==
  /\ Alive /\ spc = "df"
  /\ s_log' = Append(s_log, <<"fail">>)
  /\ spc' = "sleep"
  /\ s_i' = 0
  /\ UNCHANGED <<docker_state, s_unch>>

\* A faulty except branch: a failed poll marks the storage ready.
SDfFailSetsReady ==
  /\ Alive /\ spc = "df"
  /\ docker_state' = [docker_state EXCEPT !.space_str = "Error", !.space_ready = TRUE]
  /\ s_log' = Append(s_log, <<"fail">>)
  /\ spc' = "sleep"
  /\ s_i' = 0
  /\ UNCHANGED s_unch

\* 155, 164-165: client.df() (or the summing) raises; "Error" is published
\* and the thread goes to its sleep.
SDfFail ==
  /\ Alive /\ spc = "df"
  /\ docker_state' = [docker_state EXCEPT !.space_str = "Error"]
  /\ s_log' = Append(s_log, <<"fail">>)
  /\ spc' = "sleep"
  /\ s_i' = 0
  /\ UNCHANGED s_unch

\* 155: client.df() never returns.
SDfHang ==
  /\ Alive /\ spc = "df"
  /\ spc' = "hung"
  /\ UNCHANGED <<docker_state, s_i, s_log, s_unch>>

\* 163: self.docker_state['space_ready'] = True
SWriteReady ==
  /\ Alive /\ spc = "w_ready"
  /\ docker_state' = [docker_state EXCEPT !.space_ready = TRUE]
  /\ spc' = "sleep"
  /\ s_i' = 0
  /\ UNCHANGED <<s_log, s_unch>>

\* A faulty sleep: the increments do not look at the flag.
SSleepBlind ==
  /\ Alive /\ spc = "sleep"
  /\ IF s_i + 1 < SleepTicks THEN spc' = "sleep" /\ s_i' = s_i + 1
     ELSE spc' = "top" /\ s_i' = 0
  /\ UNCHANGED <<docker_state, s_log, s_unch>>

\* 168-170: one increment of the sleep: return if the flag is set, else
\* sleep a second; after the last increment the loop is tested again.
SSleepTick ==
  /\ Alive /\ spc = "sleep"
  /\ IF stop_threads THEN spc' = "done" /\ s_i' = s_i
     ELSE IF s_i + 1 < SleepTicks THEN spc' = "sleep" /\ s_i' = s_i + 1
          ELSE spc' = "top" /\ s_i' = 0
  /\ UNCHANGED <<docker_state, s_log, s_unch>>

SpaceNext ==
  \/ SFromEnvOk \/ SFromEnvFail \/ SLoopTest \/ SDfOk \/ SDfFail \/ SDfHang
  \/ SWriteReady \/ SSleepTick

(***************************************************************************)
(* main (377-389) and display_metrics (266-375), on the main thread.       *)
(***************************************************************************)
m_unch == <<env, cpc, c_local, spc, s_i, cycle, ver, s_log, call,
            docker_state, docker_containers_history>>

\* 268, 172-175: psutil.cpu_percent returns; the sample is appended.
MCpuOk ==
  /\ mpc = "cpu"
  /\ \E v \in env.cpu :
       /\ cpu_history' = Push(cpu_history, v)
       /\ pushed' = Logged("cpu", v)
  /\ mpc' = "mem"
  /\ UNCHANGED <<memory_history, disk_usage_history, m_local, frame, stop_threads, m_unch>>

\* 269, 177-194: psutil.virtual_memory and swap_memory return.
MMemOk ==
  /\ mpc = "mem"
  /\ \E v \in env.memory :
       /\ memory_history' = Push(memory_history, v)
       /\ pushed' = Logged("memory", v)
  /\ mpc' = "disk"
  /\ UNCHANGED <<cpu_history, disk_usage_history, m_local, frame, stop_threads, m_unch>>

\* 270, 196-203: psutil.disk_usage('/') returns.
MDiskOk ==
  /\ mpc = "disk"
  /\ \E v \in env.disk :
       /\ disk_usage_history' = Push(disk_usage_history, v)
       /\ pushed' = Logged("disk", v)
  /\ mpc' = "ports"
  /\ UNCHANGED <<cpu_history, memory_history, m_local, frame, stop_threads, m_unch>>

\* 268-270, 279: a psutil call of get_cpu_usage, get_memory_usage,
\* get_disk_space or get_system_info raises.  None of them, nor
\* display_metrics, nor main's try (which names KeyboardInterrupt only)
\* catches it: the main thread dies and the process with it.
MHostFail ==
  /\ mpc \in {"cpu", "mem", "disk", "sysinfo"}
  /\ m_local' = [m_local EXCEPT !.raised = mpc]
  /\ mpc' = "crashed"
  /\ UNCHANGED <<histories, pushed, frame, stop_threads, m_unch>>

\* 268-271, 279: a psutil call never returns.
MHostHang ==
  /\ mpc \in {"cpu", "mem", "disk", "ports", "sysinfo"}
  /\ mpc' = "hung"
  /\ UNCHANGED <<histories, pushed, m_local, frame, stop_threads, m_unch>>

\* 271, 205-213: psutil.net_connections returns; the LISTEN addresses, sorted.
MPortsOk ==
  /\ mpc = "ports"
  /\ \E l \in env.ports : m_local' = [m_local EXCEPT !.raw_ports = l]
  /\ mpc' = "r_count"
  /\ UNCHANGED <<histories, pushed, frame, stop_threads, m_unch>>

\* 271, 211-213: psutil.net_connections raises; get_used_ports returns [].
MPortsFail ==
  /\ mpc = "ports"
  /\ m_local' = [m_local EXCEPT !.raw_ports = <<>>, !.raised = "ports"]
  /\ mpc' = "r_count"
  /\ UNCHANGED <<histories, pushed, frame, stop_threads, m_unch>>

\* 274: docker_count = self.docker_state['container_count']
MReadCount ==
  /\ mpc = "r_count"
  /\ m_local' = [m_local EXCEPT !.docker_count = docker_state.container_count,
                                !.v_count = ver.container_count]
  /\ mpc' = "r_containers"
  /\ UNCHANGED <<histories, pushed, frame, stop_threads, m_unch>>

\* 275: docker_containers = self.docker_state['containers']
MReadContainers ==
  /\ mpc = "r_containers"
  /\ m_local' = [m_local EXCEPT !.docker_containers = docker_state.containers,
                                !.v_containers = ver.containers]
  /\ mpc' = "r_port_map"
  /\ UNCHANGED <<histories, pushed, frame, stop_threads, m_unch>>

\* 276-277: port_map = self.docker_state['port_map'], after space_str is
\* read into a local that only the "Storage:" line prints.
MReadPortMap ==
  /\ mpc = "r_port_map"
  /\ m_local' = [m_local EXCEPT !.port_map = docker_state.port_map,
                                !.v_port_map = ver.port_map]
  /\ mpc' = "sysinfo"
  /\ UNCHANGED <<histories, pushed, frame, stop_threads, m_unch>>

\* 279, 215-233: psutil.boot_time returns.
MSysInfoOk ==
  /\ mpc = "sysinfo"
  /\ mpc' = "render"
  /\ UNCHANGED <<histories, pushed, m_local, frame, stop_threads, m_unch>>

\* A faulty render: the test of line 317 is missing.
MRenderWithoutReadyTest ==
  /\ mpc = "render"
  /\ frame' = "table"
  /\ m_local' = NoReads
  /\ mpc' = "sleep"
  /\ UNCHANGED <<histories, pushed, stop_threads, m_unch>>

\* 281-375: the lines are composed and printed.  317 reads containers_ready:
\* the loading line when it is false, the count and the table otherwise.
MRender ==
  /\ mpc = "render"
  /\ frame' = IF ~docker_state.containers_ready THEN "loading" ELSE "table"
  /\ m_local' = NoReads
  /\ mpc' = "sleep"
  /\ UNCHANGED <<histories, pushed, stop_threads, m_unch>>

\* 384-386: time.sleep(2), then the next display_metrics.
MSleep ==
  /\ mpc = "sleep"
  /\ Len(pushed["cpu"]) < env.ticks
  /\ mpc' = "cpu"
  /\ UNCHANGED <<histories, pushed, m_local, frame, stop_threads, m_unch>>

\* 387-388: KeyboardInterrupt reaches the main thread, in the loop or in a
\* call it is blocked in: the stop flag is set.
MInterrupt ==
  /\ mpc \notin {"crashed", "stopping", "exited"}
  /\ stop_threads' = TRUE
  /\ mpc' = "stopping"
  /\ UNCHANGED <<histories, pushed, m_local, frame, m_unch>>

\* 389: "Shutting down..." is printed and main returns; the threads are
\* daemons, so the process ends without waiting for them.
MExit ==
  /\ mpc = "stopping"
  /\ mpc' = "exited"
  /\ UNCHANGED <<histories, pushed, m_local, frame, stop_threads, m_unch>>

\* The steps of the while loop of 384-386; the signal comes from outside.
MainLoop ==
  \/ MCpuOk \/ MMemOk \/ MDiskOk \/ MHostFail \/ MHostHang \/ MPortsOk \/ MPortsFail
  \/ MReadCount \/ MReadContainers \/ MReadPortMap \/ MSysInfoOk
  \/ MRender \/ MSleep

MainNext == MainLoop \/ MInterrupt \/ MExit

(***************************************************************************)
(* Python numbers in the encoders.  A number is [neg, m, e] and stands for *)
(* (-1)^neg * m * 2^e, where m is a natural number below 2^53 written in   *)
(* base 10000, least digit first (<<>> is 0).  A Python int n is the       *)
(* number with m the digits of n and e = 0; a float is the binary64 value  *)
(* that CPython computes, every operation rounded to the nearest value     *)
(* with 53 bits, ties to even.                                             *)
(***************************************************************************)
\* A natural number without leading zero digits.
RECURSIVE BNorm(_)
BNorm(a) ==
  IF a # <<>> /\ a[Len(a)] = 0 THEN BNorm(SubSeq(a, 1, Len(a) - 1)) ELSE a

RECURSIVE BMulCarry(_, _, _)
BMulCarry(a, k, carry) ==
  IF a = <<>>
  THEN IF carry = 0 THEN <<>>
       ELSE <<carry % 10000>> \o BMulCarry(<<>>, k, carry \div 10000)
  ELSE LET t == (a[1] * k) + carry
       IN <<t % 10000>> \o BMulCarry(Tail(a), k, t \div 10000)

\* a * k, for a natural number k up to 100000.
BMulSmall(a, k) == BNorm(BMulCarry(a, k, 0))

RECURSIVE BAddCarry(_, _, _)
BAddCarry(a, b, carry) ==
  IF a = <<>> /\ b = <<>>
  THEN IF carry = 0 THEN <<>> ELSE <<carry>>
  ELSE LET t == (IF a = <<>> THEN 0 ELSE a[1]) + (IF b = <<>> THEN 0 ELSE b[1]) + carry
       IN <<t % 10000>> \o BAddCarry(IF a = <<>> THEN <<>> ELSE Tail(a),
                                     IF b = <<>> THEN <<>> ELSE Tail(b),
                                     t \div 10000)

\* a + b.
BAdd(a, b) == BAddCarry(a, b, 0)

RECURSIVE BCmpFrom(_, _, _)
BCmpFrom(a, b, i) ==
  IF i = 0 THEN 0
  ELSE IF a[i] # b[i] THEN (IF a[i] < b[i] THEN -1 ELSE 1)
  ELSE BCmpFrom(a, b, i - 1)

\* -1, 0 or 1 as a is below, equal to or above b.
BCmp(a, b) ==
  IF Len(a) # Len(b) THEN (IF Len(a) < Len(b) THEN -1 ELSE 1)
  ELSE BCmpFrom(a, b, Len(a))

RECURSIVE BDivFrom(_, _, _, _, _)
BDivFrom(a, k, i, rem, q) ==
  IF i = 0 THEN [q |-> BNorm(q), r |-> rem]
  ELSE LET t == (rem * 10000) + a[i]
       IN BDivFrom(a, k, i - 1, t % k, <<t \div k>> \o q)

\* Quotient and remainder of a by k, for k from 1 up to 100000.
BDivSmall(a, k) == BDivFrom(a, k, Len(a), 0, <<>>)

\* a * 2^n.
RECURSIVE BShl(_, _)
BShl(a, n) ==
  IF n = 0 THEN a
  ELSE IF n >= 10 THEN BShl(BMulSmall(a, 1024), n - 10)
  ELSE BShl(BMulSmall(a, 2), n - 1)

\* The number of bits n has beyond 53.
RECURSIVE Excess(_, _)
Excess(n, s) ==
  IF BCmp(n, BShl(<<1>>, 53 + s)) < 0 THEN s ELSE Excess(n, s + 1)

\* The float nearest to n * 2^e (n > 0), ties to even; sticky tells that the
\* exact value lies above n * 2^e by less than 2^e.
RoundToFloat(n, e, sticky) ==
  LET s == Excess(n, 0)
  IN IF s = 0 THEN [neg |-> FALSE, m |-> n, e |-> e]
     ELSE LET d == BDivSmall(n, 2^s)
              odd == d.q[1] % 2 = 1
              up == \/ 2 * d.r > 2^s
                    \/ 2 * d.r = 2^s /\ (sticky \/ odd)
          IN [neg |-> FALSE, m |-> IF up THEN BAdd(d.q, <<1>>) ELSE d.q, e |-> e + s]

\* The Python int n.
FromInt(n) ==
  [neg |-> n < 0, m |-> BNorm(<<IF n < 0 THEN -n ELSE n>>), e |-> 0]

IsZero(x) == x.m = <<>>

\* k * x for a Python int k >= 0 and a number x >= 0: the product, rounded.
FMulInt(k, x) ==
  IF k = 0 \/ IsZero(x) THEN FromInt(0)
  ELSE RoundToFloat(BMulSmall(x.m, k), x.e, FALSE)

\* The least shift that brings the quotient of a * 2^sh by d to 2^54.
RECURSIVE QuotientShift(_, _, _)
QuotientShift(a, d, sh) ==
  IF BCmp(BDivSmall(BShl(<<a>>, sh), d).q, BShl(<<1>>, 54)) >= 0 THEN sh
  ELSE QuotientShift(a, d, sh + 1)

\* a / d for Python ints a >= 0 and d > 0 below 10000: the quotient, rounded.
\* A decimal literal such as 42.3 is the float 423 / 10.
FDivInt(a, d) ==
  IF a = 0 THEN FromInt(0)
  ELSE LET sh == QuotientShift(a, d, 40)
           qr == BDivSmall(BShl(<<a>>, sh), d)
       IN RoundToFloat(qr.q, -sh, qr.r # 0)

\* x < y for numbers x, y >= 0.
MagLess(x, y) ==
  LET base == IF x.e < y.e THEN x.e ELSE y.e
  IN BCmp(BShl(x.m, x.e - base), BShl(y.m, y.e - base)) < 0

Sign(x) == IF IsZero(x) THEN 0 ELSE IF x.neg THEN -1 ELSE 1

\* x < y.
FLess(x, y) ==
  IF Sign(x) # Sign(y) THEN Sign(x) < Sign(y)
  ELSE IF Sign(x) = 0 THEN FALSE
  ELSE IF Sign(x) = 1 THEN MagLess(x, y)
  ELSE MagLess(y, x)

\* Python's min(x, y) and max(x, y): the first argument unless the second
\* is strictly smaller (larger).
FMin(x, y) == IF FLess(y, x) THEN y ELSE x
FMax(x, y) == IF FLess(x, y) THEN y ELSE x

RECURSIVE Log2(_)
Log2(k) == IF k <= 1 THEN 0 ELSE 1 + Log2(k \div 2)

\* The float nearest to a / d is at least the integer k >= 1: a / d is at
\* least the midpoint between k and the float just below it (as a float k
\* is even, so the midpoint itself rounds to k).  The midpoint is
\* k - 2^(-t), with t as below.
QuotientAtLeast(a, d, k) ==
  LET j == Log2(k)
      t == IF k = 2^j THEN 54 - j ELSE 53 - j
      base == IF a.e + t < d.e THEN a.e + t ELSE d.e
  IN BCmp(BAdd(BShl(a.m, (a.e + t) - base), BShl(d.m, d.e - base)),
          BShl(BMulSmall(d.m, k), (d.e + t) - base)) >= 0

RECURSIVE IntFrom(_, _, _)
IntFrom(a, d, k) ==
  IF QuotientAtLeast(a, d, k + 1) THEN IntFrom(a, d, k + 1) ELSE k

\* int(a / d) for numbers a >= 0 and d > 0: the quotient, rounded to a
\* float, then truncated.
IntOfQuotient(a, d) == IntFrom(a, d, 0)

(***************************************************************************)
(* The encoders and the port joiner (235-264, 356-366), and the CPU        *)
(* percent of a container (91-101).  A string the caller measures or       *)
(* indexes is the sequence of its characters.                              *)
(***************************************************************************)
\* spark_chars (262).
spark_chars == <<" ", "▂", "▃", "▄", "▅", "▆", "▇", "█">>

\* max_value=None (323).
None == [none |-> TRUE]

\* ch * n: n copies of ch, none when n <= 0.
Repeat(ch, n) == [i \in 1..n |-> ch]

\* A faulty bar: the cell in progress counts as filled.
create_barCountsStartedCell(percent, width) ==
  LET whole == IntOfQuotient(FMulInt(width, percent), FromInt(100))
      filled == IF whole < width THEN whole + 1 ELSE whole
  IN Repeat("█", filled) \o Repeat("░", width - filled)

\* 235-237: the cells of the bar (the brackets and the percent that 238
\* prints around them are left out).
create_bar(percent, width) ==
  LET filled == IntOfQuotient(FMulInt(width, percent), FromInt(100))
  IN Repeat("█", filled) \o Repeat("░", width - filled)

\* 248-252: the level of one sample under a fixed maximum.
AbsoluteLevel(x, max_value) ==
  LET val == FMax(FromInt(0), FMin(x, max_value))
  IN IntOfQuotient(FMulInt(7, val), max_value)

\* The value of a Python int below 10000.
IntValue(x) == IF IsZero(x) THEN 0 ELSE IF x.neg THEN -(x.m[1]) ELSE x.m[1]

\* 255-260: the levels relative to the minimum and maximum of the data, for
\* data of Python ints (the container counts of 137).
RelativeLevels(data) ==
  LET vals == [i \in DOMAIN data |-> IntValue(data[i])]
      min_val == CHOOSE v \in {vals[i] : i \in DOMAIN vals} :
                   \A i \in DOMAIN vals : v <= vals[i]
      max_val == CHOOSE v \in {vals[i] : i \in DOMAIN vals} :
                   \A i \in DOMAIN vals : v >= vals[i]
  IN IF min_val = max_val THEN [i \in DOMAIN data |-> 4]
     ELSE [i \in DOMAIN data |->
             IntOfQuotient(FromInt(7 * (vals[i] - min_val)), FromInt(max_val - min_val))]

\* 240-264.  normalized[-width:] is the last width levels, or all of them
\* when there are fewer (and all of them when width is 0).
create_sparkline(data, width, max_value) ==
  IF data = <<>> THEN Repeat("░", width)
  ELSE LET normalized ==
             IF max_value # None
             THEN [i \in DOMAIN data |-> AbsoluteLevel(data[i], max_value)]
             ELSE RelativeLevels(data)
           first == IF width = 0 \/ width >= Len(normalized) THEN 1
                    ELSE Len(normalized) - width + 1
           shown == SubSeq(normalized, first, Len(normalized))
       IN [i \in DOMAIN shown |-> spark_chars[shown[i] + 1]]

\* An address is the sequence of its pieces, a ":" being a piece of its own:
\* "0.0.0.0:8080" is <<"0.0.0.0", ":", "8080">>.
RECURSIVE Concat(_)
Concat(pieces) == IF pieces = <<>> THEN "" ELSE pieces[1] \o Concat(Tail(pieces))

\* 360: p_str.split(':')[-1], the text after the last ":", the whole string
\* when it has none.
LastField(p_str) ==
  LET colons == {i \in DOMAIN p_str : p_str[i] = ":"}
  IN IF colons = {} THEN Concat(p_str)
     ELSE Concat(SubSeq(p_str, (CHOOSE i \in colons : \A j \in colons : j <= i) + 1,
                        Len(p_str)))

\* 357-366.  For strings neither split nor the lookup raises, so the bare
\* except of 365 takes no part.
formatted_ports(raw_ports, port_map) ==
  [i \in DOMAIN raw_ports |->
     LET port_num == LastField(raw_ports[i])
     IN IF port_num \in DOMAIN port_map
        THEN Concat(raw_ports[i]) \o " (" \o port_map[port_num] \o ")"
        ELSE Concat(raw_ports[i])]

ZeroDivisionError == [raised |-> "ZeroDivisionError"]

\* a / d for Python ints.
PyDivide(a, d) ==
  IF d = 0 THEN ZeroDivisionError
  ELSE [FDivInt(IF a < 0 THEN -a ELSE a, IF d < 0 THEN -d ELSE d)
          EXCEPT !.neg = (a < 0) # (d < 0) /\ a # 0]

\* A faulty guard: only cpu_delta is tested.
cpu_percentTestsCpuDeltaOnly(cpu_delta, system_delta, number_cpus) ==
  IF cpu_delta > 0
  THEN LET q == PyDivide(cpu_delta, system_delta)
       IN IF q = ZeroDivisionError THEN q
          ELSE [FMulInt(100, FMulInt(number_cpus, q)) EXCEPT !.neg = q.neg /\ number_cpus # 0]
  ELSE FromInt(0)

\* 98-101.
cpu_percent(cpu_delta, system_delta, number_cpus) ==
  IF system_delta > 0 /\ cpu_delta > 0
  THEN LET q == PyDivide(cpu_delta, system_delta)
       IN IF q = ZeroDivisionError THEN q
          ELSE FMulInt(100, FMulInt(number_cpus, q))
  ELSE FromInt(0)

\* The inputs the encoders are applied to.
\* Percents as psutil reports them, to one decimal place.
Percents == {FDivInt(k, 10) : k \in {0, 1, 33, 34, 423, 500, 666, 667, 999, 1000}}
BarWidths == {0, 1, 7, 30}
\* Samples of a percent history, with values below 0 and above the maximum.
Samples == {FromInt(-5), FromInt(0), FDivInt(13, 20), FDivInt(13, 10),
            FromInt(50), FromInt(100), FromInt(150)}
\* max_value: the default 100 of line 240, and 1.3.
Maxima == {FromInt(100), FDivInt(13, 10)}
\* Container counts.
Counts == {FromInt(0), FromInt(1), FromInt(2)}
\* Listening addresses: well formed, for IPv6, and malformed (no colon,
\* nothing after the colon, empty).
Addresses == { <<"0.0.0.0", ":", "8080">>, <<"127.0.0.1", ":", "9000">>,
               <<":", ":", ":", "8080">>, <<"8080">>, <<"0.0.0.0", ":">>, <<>> }
PortMaps == { EmptyMap, [p \in {"8080"} |-> "web"], [p \in {"9000"} |-> "db"],
              [p \in {"8080", "5432"} |-> IF p = "8080" THEN "web" ELSE "db"] }
Deltas == {-1, 0, 1, 2, 3}
OnlineCpus == {0, 1, 4}

SeqsUpTo(S, n) == UNION {[1..k -> S] : k \in 0..n}

Pending(fn, args) == [fn |-> fn, args |-> args, done |-> FALSE, out |-> <<>>]

Calls ==
  {Pending("create_bar", <<p, w>>) : p \in Percents, w \in BarWidths}
  \cup {Pending("create_sparkline", <<d, w, mx>>) :
          d \in SeqsUpTo(Samples, MaxSamples), w \in 1..MaxWidth, mx \in Maxima}
  \cup {Pending("create_sparkline", <<d, w, None>>) :
          d \in SeqsUpTo(Counts, MaxSamples), w \in 1..MaxWidth}
  \cup {Pending("formatted_ports", <<r, pm>>) :
          r \in SeqsUpTo(Addresses, MaxPorts), pm \in PortMaps}
  \cup {Pending("cpu_percent", <<cd, sd, n>>) :
          cd \in Deltas, sd \in Deltas, n \in OnlineCpus}

e_unch == <<env, docker_state, histories, stop_threads, cpc, c_local, spc, s_i,
            mpc, m_local, frame, cycle, ver, pushed, s_log>>

Returned(v) == [call EXCEPT !.done = TRUE, !.out = v]

ApplyBar ==
  /\ call.fn = "create_bar" /\ ~call.done
  /\ call' = Returned(create_bar(call.args[1], call.args[2]))
  /\ UNCHANGED e_unch

ApplySparkline ==
  /\ call.fn = "create_sparkline" /\ ~call.done
  /\ call' = Returned(create_sparkline(call.args[1], call.args[2], call.args[3]))
  /\ UNCHANGED e_unch

ApplyJoiner ==
  /\ call.fn = "formatted_ports" /\ ~call.done
  /\ call' = Returned(formatted_ports(call.args[1], call.args[2]))
  /\ UNCHANGED e_unch

ApplyCpuPercent ==
  /\ call.fn = "cpu_percent" /\ ~call.done
  /\ call' = Returned(cpu_percent(call.args[1], call.args[2], call.args[3]))
  /\ UNCHANGED e_unch

(***************************************************************************)
(* The program: the three threads under the narrowest answers.             *)
(***************************************************************************)
NarrowEnv ==
  [listings |-> {<<"web">>}, outcomes |-> {"ok"}, cpu |-> {10}, memory |-> {50},
   disk |-> {70}, ports |-> PortListings, dfinfos |-> {ScenarioInfo},
   cycles |-> MaxPushes, ticks |-> MaxPushes]

Init == env = NarrowEnv /\ Constructed

Next == ContainerNext \/ SpaceNext \/ MainNext

Spec == Init /\ [][Next]_vars

\* The interpreter runs every thread that can run: a thread that can take a
\* step takes one.  Nothing is assumed of the signal, nor of how long main
\* takes to return after it.
FairSpec ==
  /\ Spec
  /\ WF_vars(ContainerNext)
  /\ WF_vars(SpaceNext)
  /\ WF_vars(MainLoop)

\* The two collectors and the signal, without the render loop.
NextCollectors == ContainerNext \/ SpaceNext \/ MInterrupt \/ MExit

FairCollectors ==
  /\ Init /\ [][NextCollectors]_vars
  /\ WF_vars(ContainerNext)
  /\ WF_vars(SpaceNext)

(***************************************************************************)
(* The container collector and the render loop under every listing and     *)
(* every per-container outcome (the storage collector is not scheduled).   *)
(***************************************************************************)
ContainersEnv ==
  [NarrowEnv EXCEPT !.listings = Listings, !.outcomes = Outcomes,
                    !.cycles = MaxCycles, !.ticks = MaxTicks]

InitContainers == env = ContainersEnv /\ Constructed

NextContainers == ContainerNext \/ MainNext

SpecContainers == InitContainers /\ [][NextContainers]_vars

(***************************************************************************)
(* The storage collector under every df answer, with the shutdown signal.  *)
(***************************************************************************)
StorageEnv == [NarrowEnv EXCEPT !.dfinfos = DfInfos]

InitStorage == env = StorageEnv /\ Constructed

NextStorage == SpaceNext \/ MInterrupt \/ MExit

SpecStorage == InitStorage /\ [][NextStorage]_vars

(***************************************************************************)
(* The four histories under varying samples.                               *)
(***************************************************************************)
HistoryEnv ==
  [NarrowEnv EXCEPT !.cpu = CpuPercents, !.listings = {<<"web">>, <<"web", "db">>}]

InitHistory == env = HistoryEnv /\ Constructed

NextHistory == ContainerNext \/ MainNext

SpecHistory == InitHistory /\ [][NextHistory]_vars

(***************************************************************************)
(* The container collector alone under every listing and every             *)
(* per-container outcome, with the shutdown signal.                        *)
(***************************************************************************)
NextPublish == ContainerNext \/ MInterrupt \/ MExit

SpecPublish == InitContainers /\ [][NextPublish]_vars

\* The interpreter runs the collector's thread whenever it can run.
FairPublish == SpecPublish /\ WF_vars(ContainerNext)

(***************************************************************************)
(* Both collectors under every listing, outcome and df answer, with the    *)
(* shutdown signal.                                                        *)
(***************************************************************************)
CollectorsEnv == [ContainersEnv EXCEPT !.dfinfos = DfInfos]

InitCollectors == env = CollectorsEnv /\ Constructed

SpecCollectors == InitCollectors /\ [][NextCollectors]_vars

(***************************************************************************)
(* The encoders, the port joiner and the CPU percent, each applied once to *)
(* arguments drawn at the start.                                           *)
(***************************************************************************)
InitEncoders == env = NarrowEnv /\ ConstructedObject /\ call \in Calls

NextEncoders == ApplyBar \/ ApplySparkline \/ ApplyJoiner \/ ApplyCpuPercent

SpecEncoders == InitEncoders /\ [][NextEncoders]_vars

(***************************************************************************)
(* The claims.                                                             *)
(***************************************************************************)
Ready == docker_state.containers_ready
SpaceReady == docker_state.space_ready

\* C1: the container list, the container count and the port map that one
\* render tick has read all come from the same collector cycle.
C1_TickReadsOneCycle ==
  mpc \in {"sysinfo", "render"} =>
    /\ m_local.v_containers = m_local.v_count
    /\ m_local.v_containers = m_local.v_port_map

\* C2: once containers_ready (space_ready) is true it is true in every later
\* state, whatever polls follow.
C2_ReadinessMonotonic ==
  [][/\ docker_state.containers_ready => docker_state'.containers_ready
     /\ docker_state.space_ready => docker_state'.space_ready]_vars

\* A storage poll has failed and published "Error" after the flag was raised,
\* and the container collector has polled again after raising its flag.
C2_Witness ==
  /\ SpaceReady /\ docker_state.space_str = "Error"
  /\ Ready /\ cycle >= 2

LastN(s, n) == SubSeq(s, Len(s) - n + 1, Len(s))

Min(a, b) == IF a < b THEN a ELSE b

HoldsMostRecent(buf, log) ==
  /\ Len(buf) <= history_length
  /\ buf = LastN(log, Min(Len(log), history_length))

\* C3: every history holds at most history_length samples, and they are the
\* most recent min(pushes, history_length) samples pushed, in push order.
C3_HistoryHoldsMostRecent ==
  /\ HoldsMostRecent(cpu_history, pushed["cpu"])
  /\ HoldsMostRecent(memory_history, pushed["memory"])
  /\ HoldsMostRecent(disk_usage_history, pushed["disk"])
  /\ HoldsMostRecent(docker_containers_history, pushed["docker"])

\* Every history has been pushed onto when full, the cpu and the container
\* count histories with samples that differ.
C3_Witness ==
  /\ \A h \in DOMAIN pushed : Len(pushed[h]) > history_length
  /\ \E i, j \in 1..Len(pushed["cpu"]) : pushed["cpu"][i] # pushed["cpu"][j]
  /\ docker_containers_history[1] # docker_containers_history[Len(docker_containers_history)]

\* C4: whatever external calls fail, the process ends by the shutdown signal
\* only.
C4_OnlyTheSignalEndsTheProcess == Alive \/ stop_threads

\* C5: after a host-metric read has failed the tick goes on: main is still
\* in its loop.
C5_HostReadFailureIsIsolated ==
  m_local.raised \in {"cpu", "mem", "disk"} => mpc # "crashed"

\* The tasks blocked in a call that never returns.
HungTasks ==
  (IF cpc = "hung" THEN {"container"} ELSE {}) \cup
  (IF spc = "hung" THEN {"space"} ELSE {}) \cup
  (IF mpc = "hung" THEN {"main"} ELSE {})

\* The renderer has completed every tick followed.
RendererDone == mpc = "sleep" /\ Len(pushed["cpu"]) = env.ticks
\* A collector is between two polls, or has returned.
ContainerResting == cpc \in {"top", "done", "nodocker"}
StorageResting == spc \in {"top", "sleep", "done", "nodocker"}
\* The process has ended or is being shut down, or a second call hangs.
Excused == ~Alive \/ stop_threads \/ Cardinality(HungTasks) > 1

\* C6: when one external call never returns, the renderer still completes
\* its ticks, and a collector other than the caller's still completes the
\* poll it is in.
C6_HungCallStallsOnlyItsCollector ==
  /\ (Cardinality(HungTasks) = 1) ~> (RendererDone \/ Excused)
  /\ (Cardinality(HungTasks) = 1 /\ cpc # "hung") ~> (ContainerResting \/ Excused)
  /\ (Cardinality(HungTasks) = 1 /\ spc # "hung") ~> (StorageResting \/ Excused)

\* C7: when docker.from_env() fails in the container collector, the
\* collector has returned for good, containers_ready stays false, and every
\* render prints the loading line and goes on to the sleep of the loop
\* (unless the signal interrupts it).
C7_NoRuntimeKeepsLoading ==
  /\ [](cpc = "nodocker" => ~Ready /\ frame # "table")
  /\ [][cpc = "nodocker" => cpc' = "nodocker"]_vars
  /\ [][(cpc = "nodocker" /\ mpc = "render" /\ mpc' # mpc) =>
          ((frame' = "loading" /\ mpc' = "sleep") \/ mpc' = "stopping")]_vars

\* The collector returned on the failure and the renderer has printed the
\* loading line in a second tick after it.
C7_Witness ==
  /\ cpc = "nodocker" /\ frame = "loading"
  /\ mpc = "sleep" /\ Len(pushed["cpu"]) >= 2

\* What "Storage:" must show for each answer of df followed.
ExpectedStorage(info) ==
  CASE info = ScenarioInfo -> "1.5GB"
    [] info = [Images |-> <<>>, Volumes |-> << <<>> >>, Containers |-> << <<>> >>] -> "0.0GB"
    [] info = [Images |-> <<268435456>>, Volumes |-> <<>>, Containers |-> <<>>] -> "0.2GB"

\* C8: the published storage string is that of the last poll: "Error" when
\* it failed, the formatted sum when it succeeded ("1.5GB" for the sizes
\* 1073741824, 536870912, 0).
C8_StorageReflectsLastPoll ==
  s_log # <<>> =>
    LET last == s_log[Len(s_log)]
    IN docker_state.space_str =
         IF last[1] = "fail" THEN "Error" ELSE ExpectedStorage(last[2])

\* The first poll failed, the second succeeded with the sizes of the scenario.
C8_Witness ==
  /\ s_log = << <<"fail">>, <<"ok", ScenarioInfo>> >>
  /\ docker_state.space_str = "1.5GB"

Stopped == {"done", "nodocker", "hung"}

\* C9: a collector that tests its loop, or starts an increment of the
\* storage sleep, with the flag set returns; a collector that has returned
\* stays so; and once the flag is set both collectors come to a stop.
C9_CooperativeCancellation ==
  /\ [][(stop_threads /\ cpc = "top" /\ cpc' # cpc) => cpc' = "done"]_vars
  /\ [][(stop_threads /\ spc \in {"top", "sleep"} /\ <<spc, s_i>>' # <<spc, s_i>>)
          => spc' = "done"]_vars
  /\ [][(cpc = "done" => cpc' = "done") /\ (spc = "done" => spc' = "done")]_vars
  /\ stop_threads ~> (~Alive \/ (cpc \in Stopped /\ spc \in Stopped))

\* Both collectors have returned on the flag, the storage collector from
\* within its sleep, before the process went away.
C9_Witness ==
  /\ stop_threads /\ Alive
  /\ cpc = "done" /\ spc = "done" /\ s_i > 0

ContainerFieldsChange ==
  \/ docker_state'.containers # docker_state.containers
  \/ docker_state'.container_count # docker_state.container_count
  \/ docker_state'.port_map # docker_state.port_map
  \/ docker_state'.containers_ready # docker_state.containers_ready
  \/ docker_containers_history' # docker_containers_history

StorageFieldsChange ==
  \/ docker_state'.space_str # docker_state.space_str
  \/ docker_state'.space_ready # docker_state.space_ready

HostHistoriesChange ==
  \/ cpu_history' # cpu_history
  \/ memory_history' # memory_history
  \/ disk_usage_history' # disk_usage_history

\* C10: the container fields and the container-count history change in
\* steps of the container collector only, the storage fields in steps of the
\* storage collector only, the cpu, memory and disk histories in steps of
\* the main thread only.
C10_SingleWriter ==
  [][/\ ContainerFieldsChange => (cpc' # cpc /\ <<spc, s_i>>' = <<spc, s_i>> /\ mpc' = mpc)
     /\ StorageFieldsChange => (spc' # spc /\ cpc' = cpc /\ mpc' = mpc)
     /\ HostHistoriesChange => (mpc' # mpc /\ cpc' = cpc /\ <<spc, s_i>>' = <<spc, s_i>>)]_vars

\* Every field and every history has been written.
C10_Witness ==
  /\ Ready /\ SpaceReady
  /\ docker_state.containers # <<>> /\ docker_state.container_count > 0
  /\ docker_state.port_map # EmptyMap /\ docker_state.space_str = "1.5GB"
  /\ cpu_history # <<>> /\ memory_history # <<>> /\ disk_usage_history # <<>>
  /\ docker_containers_history # <<>>

\* The collector has published the list of the poll its locals are of.
ListPublished == cpc \in {"w_count", "w_port_map", "w_ready", "w_history"}

\* The positions of the listing whose processing succeeded.
Succeeded == {i \in DOMAIN c_local.outcome : c_local.outcome[i] = "ok"}

\* The k-th of them, in listing order.
KthSucceeded(k) ==
  CHOOSE i \in Succeeded : Cardinality({j \in Succeeded : j <= i}) = k

\* The record of a container of the runtime followed: its name and the host
\* ports it publishes.
ExpectedRecord(c) ==
  [name |-> c, ports |-> IF c = "web" THEN "8080" ELSE "5432"]

\* C11: the list a cycle publishes holds the record of every container of
\* the listing whose processing succeeded, in listing order, and of no
\* other; a container whose processing raised is left out, and the
\* containers listed after it are still processed.
C11_FailedContainerIsSkipped ==
  ListPublished =>
    /\ Len(docker_state.containers) = Cardinality(Succeeded)
    /\ \A k \in 1..Cardinality(Succeeded) :
         docker_state.containers[k] = ExpectedRecord(c_local.containers[KthSucceeded(k)])

\* Of two containers listed the stats call of the first raised, and the
\* cycle published the second.
C11_Witness ==
  /\ cpc = "w_history"
  /\ c_local.containers = <<"web", "db">>
  /\ c_local.outcome = <<"stats_fail", "ok">>
  /\ docker_state.containers = <<[name |-> "db", ports |-> "5432"]>>

\* C12: a poll whose listing call raises changes none of the container
\* list, the count, the port map, containers_ready and the container-count
\* history, and the collector's next step after it is the next poll (unless
\* the stop flag is set), which it comes to take.
C12_FailedPollKeepsLastGood ==
  /\ [][(cpc = "poll" /\ c_local'.polled = "fail") =>
          /\ docker_state'.containers = docker_state.containers
          /\ docker_state'.container_count = docker_state.container_count
          /\ docker_state'.port_map = docker_state.port_map
          /\ docker_state'.containers_ready = docker_state.containers_ready
          /\ docker_containers_history' = docker_containers_history
          /\ cpc' = "top"]_vars
  /\ [][(c_local.polled = "fail" /\ cpc' # cpc) => (cpc' = "poll" \/ stop_threads)]_vars
  /\ (c_local.polled = "fail") ~> (cpc = "poll" \/ stop_threads \/ ~Alive)

\* A listing failed after a good cycle: what the good cycle published is
\* still there.
C12_Witness ==
  /\ c_local.polled = "fail" /\ cpc = "top"
  /\ Ready /\ cycle = 1
  /\ docker_state.containers = <<[name |-> "web", ports |-> "8080"]>>
  /\ docker_state.container_count = 1
  /\ docker_containers_history = <<1>>

\* The names of the containers in the published list.
PublishedNames ==
  {docker_state.containers[k].name : k \in DOMAIN docker_state.containers}

\* C18: when the published list and the published port map are of the same
\* cycle, every name the port map gives is the name of a container of the
\* list.
C18_PortMapNamesAreListed ==
  (ver.port_map > 0 /\ ver.port_map = ver.containers) =>
    \A p \in DOMAIN docker_state.port_map : docker_state.port_map[p] \in PublishedNames

\* C19: when the published count and the published list are of the same
\* cycle, the count is the length of the list; and the sample a cycle
\* appends to the container-count history is the length of the list it
\* published.
C19_CountIsListLength ==
  /\ (ver.container_count > 0 /\ ver.container_count = ver.containers) =>
       docker_state.container_count = Len(docker_state.containers)
  /\ (cpc = "top" /\ c_local.polled = "ok") =>
       docker_containers_history[Len(docker_containers_history)] = Len(docker_state.containers)

\* C20: containers_ready is true only when a cycle has written the list,
\* the count and the port map, and the step that raises it follows the
\* three writes of its cycle; space_ready is true only when a poll has
\* succeeded, and the step that raises it follows the publication of the
\* size of that poll.
C20_ReadyOnlyAfterPublication ==
  /\ [](Ready => ver.containers >= 1 /\ ver.container_count >= 1 /\ ver.port_map >= 1)
  /\ [][(~Ready /\ Ready') =>
          (ver.containers = cycle /\ ver.container_count = cycle /\ ver.port_map = cycle)]_vars
  /\ [](SpaceReady => \E i \in DOMAIN s_log : s_log[i][1] = "ok")
  /\ [][(~SpaceReady /\ SpaceReady') =>
          /\ s_log # <<>> /\ s_log[Len(s_log)][1] = "ok"
          /\ docker_state.space_str = ExpectedStorage(s_log[Len(s_log)][2])]_vars

\* Both flags are up after the first cycle and the first poll.
C20_Witness ==
  /\ Ready /\ SpaceReady /\ cycle = 1 /\ Len(s_log) = 1

\* j * d <= k * x, for numbers x >= 0 and d > 0 and naturals j, k.
TimesLeq(j, d, k, x) ==
  LET base == IF d.e < x.e THEN d.e ELSE x.e
  IN BCmp(BShl(BMulSmall(d.m, j), d.e - base), BShl(BMulSmall(x.m, k), x.e - base)) <= 0

RECURSIVE FloorFrom(_, _, _, _)
FloorFrom(k, x, d, j) ==
  IF TimesLeq(j + 1, d, k, x) THEN FloorFrom(k, x, d, j + 1) ELSE j

\* floor(k * x / d), of the exact values.
FloorExact(k, x, d) == FloorFrom(k, x, d, 0)

\* clamp(x, 0, M).
Clamp(x, M) == IF Sign(x) < 0 THEN FromInt(0) ELSE IF FLess(M, x) THEN M ELSE x

SparklineDone == call.fn = "create_sparkline" /\ call.done

\* The sample that the i-th glyph of the output stands for, counting from
\* the most recent.
SampleOf(i) == call.args[1][Len(call.args[1]) - Len(call.out) + i]

\* C13: the sparkline has as many glyphs as the width asked; with fewer
\* samples than the width, the glyphs before those of the samples are the
\* empty glyph; with a fixed maximum and at least as many samples as the
\* width, the glyphs are those of the last width samples in order.
C13_SparklineLengthIsWidth ==
  SparklineDone =>
    LET data == call.args[1]
        width == call.args[2]
        max_value == call.args[3]
    IN /\ Len(call.out) = width
       /\ \A i \in 1..(width - Len(data)) : call.out[i] \in {" ", "░"}
       /\ (Len(data) >= width /\ max_value # None) =>
            \A i \in 1..width :
              call.out[i] = spark_chars[AbsoluteLevel(data[Len(data) - width + i], max_value) + 1]

SameValue(x, y) == ~FLess(x, y) /\ ~FLess(y, x)

\* C15: the CPU percent is 0.0 when system_delta <= 0 or cpu_delta <= 0,
\* it is (cpu_delta / system_delta) * online_cpus * 100 when both are
\* positive (200.0 for deltas 1 and 2 on 4 CPUs), and the computation never
\* divides by zero.
C15_CpuPercentGuardsDeltas ==
  (call.fn = "cpu_percent" /\ call.done) =>
    LET cpu_delta == call.args[1]
        system_delta == call.args[2]
        number_cpus == call.args[3]
    IN /\ call.out # ZeroDivisionError
       /\ (system_delta <= 0 \/ cpu_delta <= 0) => call.out = FromInt(0)
       /\ (system_delta > 0 /\ cpu_delta > 0) =>
            call.out = FMulInt(100, FMulInt(number_cpus, FDivInt(cpu_delta, system_delta)))
       /\ call.args = <<1, 2, 4>> => SameValue(call.out, FromInt(200))

\* system_delta is 0 with a positive cpu_delta: the percent is 0.0.
C15_Witness ==
  /\ call.fn = "cpu_percent" /\ call.done
  /\ call.args = <<1, 0, 4>>
  /\ call.out = FromInt(0)

Filled(cells) == {i \in DOMAIN cells : cells[i] = "█"}

\* C17: the bar of percent p and width w has w cells, the first
\* floor(w * p / 100) of them filled and the others empty; 12 are filled
\* for width 30 and 42.3 percent.
C17_BarFillsFloor ==
  (call.fn = "create_bar" /\ call.done) =>
    LET percent == call.args[1]
        width == call.args[2]
        n == FloorExact(width, percent, FromInt(100))
    IN /\ Len(call.out) = width
       /\ Filled(call.out) = 1..n
       /\ \A i \in (n + 1)..width : call.out[i] = "░"
       /\ (percent = FDivInt(423, 10) /\ width = 30) => n = 12

\* The bar of width 30 for 42.3 percent.
C17_Witness ==
  /\ call.fn = "create_bar" /\ call.done
  /\ call.args = <<FDivInt(423, 10), 30>>
  /\ Cardinality(Filled(call.out)) = 12 /\ Len(call.out) = 30

====
